---------------------------- MODULE Spec2Model ----------------------------
(***************************************************************************)
(* XGMML completion (rebuild_xgmml) of est-fasta-processing.               *)
(*                                                                         *)
(* A text is a sequence of one-character strings, so that the parsers and  *)
(* the regular expressions of the source act on characters, as they do in  *)
(* Python.  A mapping (a Python dict) is a sequence of [k, v] records in   *)
(* insertion order with pairwise distinct keys.                            *)
(***************************************************************************)
EXTENDS Integers, Sequences, FiniteSets, TLC

(***************************************************************************)
(* Characters and the str methods the source uses                          *)
(***************************************************************************)

\* The printable ASCII characters of code points 32..95, in order.
Ascii32 ==
  << " ", "!", "\"", "#", "$", "%", "&", "'", "(", ")", "*", "+", ",", "-",
     ".", "/", "0", "1", "2", "3", "4", "5", "6", "7", "8", "9", ":", ";",
     "<", "=", ">", "?", "@", "A", "B", "C", "D", "E", "F", "G", "H", "I",
     "J", "K", "L", "M", "N", "O", "P", "Q", "R", "S", "T", "U", "V", "W",
     "X", "Y", "Z", "[", "\\", "]", "^", "_" >>

\* Those of code points 97..126, in order.
Ascii97 ==
  << "a", "b", "c", "d", "e", "f", "g", "h", "i", "j", "k", "l", "m", "n",
     "o", "p", "q", "r", "s", "t", "u", "v", "w", "x", "y", "z", "{", "|",
     "}", "~" >>

Chars ==
  {Ascii32[i] : i \in 1..Len(Ascii32)} \cup {Ascii97[i] : i \in 1..Len(Ascii97)}
    \cup {"\t", "\n", "\r"}

\* The code point of a character (the order Python compares strings by).
Ord ==
  [c \in Chars |->
     CASE c = "\t" -> 9
       [] c = "\n" -> 10
       [] c = "\r" -> 13
       [] \E i \in 1..Len(Ascii97) : Ascii97[i] = c ->
            96 + (CHOOSE i \in 1..Len(Ascii97) : Ascii97[i] = c)
       [] OTHER -> 31 + (CHOOSE i \in 1..Len(Ascii32) : Ascii32[i] = c)]

\* str.upper() on one ASCII character: a..z to A..Z, 32 code points lower.
upper_char ==
  [c \in Chars |->
     IF Ord[c] >= 97 /\ Ord[c] <= 122 THEN Ascii32[Ord[c] - 32 - 31] ELSE c]

\* str.upper()
upper(s) == [i \in 1..Len(s) |-> upper_char[s[i]]]

\* The characters str.strip() removes.
Whitespace == {" ", "\t", "\n", "\r"}

RECURSIVE lstrip(_)
lstrip(s) ==
  IF s # <<>> /\ s[1] \in Whitespace THEN lstrip(Tail(s)) ELSE s

RECURSIVE rstrip(_)
rstrip(s) ==
  IF s # <<>> /\ s[Len(s)] \in Whitespace
  THEN rstrip(SubSeq(s, 1, Len(s) - 1))
  ELSE s

\* str.strip()
strip(s) == rstrip(lstrip(s))

\* str.find(c, from): the least index >= from holding c, 0 when there is none.
find(s, c, from) ==
  IF \E i \in from..Len(s) : s[i] = c
  THEN CHOOSE i \in from..Len(s) :
         s[i] = c /\ \A j \in from..(i - 1) : s[j] # c
  ELSE 0

\* str.split(c) for a one-character separator: always at least one field.
RECURSIVE split(_, _)
split(s, c) ==
  LET i == find(s, c, 1)
  IN  IF i = 0 THEN << s >>
      ELSE << SubSeq(s, 1, i - 1) >> \o split(SubSeq(s, i + 1, Len(s)), c)

\* str.replace(c, empty)
remove(s, c) == SelectSeq(s, LAMBDA x : x # c)

\* str.join of the empty separator
RECURSIVE join(_)
join(l) == IF l = <<>> THEN <<>> ELSE l[1] \o join(Tail(l))

\* sep.join(list)
RECURSIVE join_lines(_, _)
join_lines(l, sep) ==
  IF l = <<>> THEN <<>>
  ELSE IF Len(l) = 1 THEN l[1]
  ELSE l[1] \o sep \o join_lines(Tail(l), sep)

\* The order < of Python on str: by code point, a proper prefix is smaller.
RECURSIVE str_lt(_, _)
str_lt(a, b) ==
  IF a = <<>> THEN b # <<>>
  ELSE IF b = <<>> THEN FALSE
  ELSE IF a[1] = b[1] THEN str_lt(Tail(a), Tail(b))
  ELSE Ord[a[1]] < Ord[b[1]]

\* Mutant of sorted: sorted(S, key=str.upper), the order without regard to
\* case (equal keys by code point).
RECURSIVE sorted_by_upper(_)
sorted_by_upper(S) ==
  IF S = {} THEN <<>>
  ELSE LET less(x, y) == \/ str_lt(upper(x), upper(y))
                         \/ upper(x) = upper(y) /\ str_lt(x, y)
           m == CHOOSE x \in S : \A y \in S \ {x} : less(x, y)
       IN  << m >> \o sorted_by_upper(S \ {m})

\* sorted(set of str): the least element first.
RECURSIVE sorted(_)
sorted(S) ==
  IF S = {} THEN <<>>
  ELSE LET m == CHOOSE x \in S : \A y \in S \ {x} : str_lt(x, y)
       IN  << m >> \o sorted(S \ {m})

\* f"{n}" for a non-negative integer: its decimal digits.
RECURSIVE format_int(_)
format_int(n) ==
  IF n < 10 THEN << Ascii32[17 + n] >>
  ELSE format_int(n \div 10) \o << Ascii32[17 + (n % 10)] >>

\* s[from..] begins with the literal lit (from is 1-based).
starts_at(s, from, lit) ==
  /\ from + Len(lit) - 1 <= Len(s)
  /\ \A k \in 1..Len(lit) : s[from + k - 1] = lit[k]

(***************************************************************************)
(* Files                                                                   *)
(***************************************************************************)

\* A path holds a file ([exists |-> TRUE, data |-> its characters]) or not.
NoFile == [exists |-> FALSE, data |-> <<>>]

File(data) == [exists |-> TRUE, data |-> data]

\* reading a file opened in text mode: text mode translates "\r\n" and "\r" to "\n".
universal_newlines(b) ==
  LET kept == SelectSeq([i \in 1..Len(b) |-> i],
                        LAMBDA i : ~(b[i] = "\n" /\ i > 1 /\ b[i - 1] = "\r"))
  IN  [k \in 1..Len(kept) |-> IF b[kept[k]] = "\r" THEN "\n" ELSE b[kept[k]]]

\* f.readlines(): the lines, each keeping its "\n".
RECURSIVE readlines(_)
readlines(t) ==
  IF t = <<>> THEN <<>>
  ELSE LET i == find(t, "\n", 1)
       IN  IF i = 0 THEN << t >>
           ELSE << SubSeq(t, 1, i) >> \o readlines(SubSeq(t, i + 1, Len(t)))

(***************************************************************************)
(* Mappings                                                                *)
(***************************************************************************)

keys(m) == {m[i].k : i \in 1..Len(m)}

\* Mutant of put: a present key keeps its value (the first record wins).
put_keeping(m, key, value) ==
  IF \E i \in 1..Len(m) : m[i].k = key
  THEN m
  ELSE Append(m, [k |-> key, v |-> value])

\* m[key] = value: a present key keeps its place, a new one goes last.
put(m, key, value) ==
  IF \E i \in 1..Len(m) : m[i].k = key
  THEN [i \in 1..Len(m) |->
          IF m[i].k = key THEN [k |-> key, v |-> value] ELSE m[i]]
  ELSE Append(m, [k |-> key, v |-> value])

\* m[key] for a present key.
get(m, key) == m[CHOOSE i \in 1..Len(m) : m[i].k = key].v

(***************************************************************************)
(* parse_fasta                                                             *)
(***************************************************************************)

\* One loop iteration: the header of the entry and sequence stored in the mapping.
fasta_entry(sequences, entry) ==
  LET lines    == split(strip(entry), "\n")
      header   == strip(lines[1])
      sequence == remove(remove(join(Tail(lines)), "\n"), " ")
  IN  put(sequences, header, sequence)

RECURSIVE fasta_entries(_, _)
fasta_entries(sequences, entries) ==
  IF entries = <<>> THEN sequences
  ELSE fasta_entries(fasta_entry(sequences, entries[1]), Tail(entries))

\* content -> {header_id: sequence}
parse_fasta(content) == fasta_entries(<<>>, Tail(split(content, ">")))

(***************************************************************************)
(* parse_metadata_tab                                                      *)
(***************************************************************************)

Description == << "D", "e", "s", "c", "r", "i", "p", "t", "i", "o", "n" >>

\* One loop iteration over a line after the header.
metadata_line(descriptions, line) ==
  LET parts == split(strip(line), "\t")
  IN  IF Len(parts) >= 3 /\ parts[2] = Description
      THEN put(descriptions, parts[1], parts[3])
      ELSE descriptions

RECURSIVE metadata_lines(_, _)
metadata_lines(descriptions, lines) ==
  IF lines = <<>> THEN descriptions
  ELSE metadata_lines(metadata_line(descriptions, lines[1]), Tail(lines))

\* content -> {seq_id: description}; lines[1:] of an empty list is empty.
parse_metadata_tab(content) ==
  LET lines == readlines(content)
  IN  metadata_lines(<<>>, IF lines = <<>> THEN <<>> ELSE Tail(lines))

(***************************************************************************)
(* The regular expressions                                                 *)
(***************************************************************************)

EdgeOpen == << "<", "e", "d", "g", "e" >>

GraphOpen == << "<", "g", "r", "a", "p", "h" >>

SourceAttr == << "s", "o", "u", "r", "c", "e", "=", "\"" >>

TargetAttr == << "t", "a", "r", "g", "e", "t", "=", "\"" >>

\* A match object: offsets as Python counts them (0-based, end exclusive).
NoMatch == [found |-> FALSE, start |-> 0, end |-> 0, group |-> <<>>]

\* One attempt of  <edge[^>]*ATTR="([^"]*)"  with the "<" at the 1-based index
\* i.  [^>]* is greedy and backtracks: of the places before the next ">" where
\* ATTR=" begins and a closing quote follows, the last one matches.  ([^"]*)
\* runs to the next quote, across ">" when there is one.
edge_attr_match_at(s, i, attr) ==
  IF ~starts_at(s, i, EdgeOpen) THEN NoMatch
  ELSE LET from  == i + Len(EdgeOpen)
           gt    == find(s, ">", from)
           upto  == IF gt = 0 THEN Len(s) ELSE gt
           cands == {j \in from..upto :
                       /\ starts_at(s, j, attr)
                       /\ find(s, "\"", j + Len(attr)) # 0}
       IN  IF cands = {} THEN NoMatch
           ELSE LET j == CHOOSE x \in cands : \A y \in cands : y <= x
                    q == find(s, "\"", j + Len(attr))
                IN  [found |-> TRUE, start |-> i - 1, end |-> q,
                     group |-> SubSeq(s, j + Len(attr), q - 1)]

\* re.findall: the groups of the non-overlapping matches, scanning from the
\* offset pos; after a match the scan resumes at its end.
RECURSIVE findall_edge_attr(_, _, _)
findall_edge_attr(s, pos, attr) ==
  LET at == {i \in (pos + 1)..Len(s) : edge_attr_match_at(s, i, attr).found}
  IN  IF at = {} THEN <<>>
      ELSE LET m == edge_attr_match_at(s, CHOOSE i \in at : \A j \in at : i <= j,
                                       attr)
           IN  << m.group >> \o findall_edge_attr(s, m.end, attr)

\* One attempt of  (<NAME[^>]*>)  with the "<" at the 1-based index i.
tag_match_at(s, i, open) ==
  IF starts_at(s, i, open) /\ find(s, ">", i + Len(open)) # 0
  THEN [found |-> TRUE, start |-> i - 1,
        end |-> find(s, ">", i + Len(open)), group |-> <<>>]
  ELSE NoMatch

\* re.search: the leftmost match, or none.
re_search_tag(s, pos, open) ==
  LET at == {i \in (pos + 1)..Len(s) : tag_match_at(s, i, open).found}
  IN  IF at = {} THEN NoMatch
      ELSE tag_match_at(s, CHOOSE i \in at : \A j \in at : i <= j, open)

(***************************************************************************)
(* extract_node_ids_from_xgmml                                             *)
(***************************************************************************)

Range(l) == {l[i] : i \in 1..Len(l)}

\* content -> the set node_ids (the content itself is returned beside it).
extract_node_ids_from_xgmml(content) ==
  LET sources == findall_edge_attr(content, 0, SourceAttr)
      targets == findall_edge_attr(content, 0, TargetAttr)
  IN  Range(sources) \cup Range(targets)

(***************************************************************************)
(* create_node_xml                                                         *)
(***************************************************************************)

\* The literal text of the node template before the first {node_id},
TplNodeId ==
  << " ", " ", "<", "n", "o", "d", "e", " ", "i", "d", "=", "\"" >>

\* between the two {node_id},
TplNodeLabel ==
  << "\"", " ", "l", "a", "b", "e", "l", "=", "\"" >>

\* from there to {seq_length},
TplNodeLength ==
  << "\"", ">", "\n", " ", " ", " ", " ", "<", "a", "t", "t", " ", "n",
     "a", "m", "e", "=", "\"", "S", "e", "q", "u", "e", "n", "c", "e",
     " ", "S", "o", "u", "r", "c", "e", "\"", " ", "t", "y", "p", "e",
     "=", "\"", "s", "t", "r", "i", "n", "g", "\"", " ", "v", "a", "l",
     "u", "e", "=", "\"", "U", "S", "E", "R", "\"", " ", "/", ">", "\n",
     " ", " ", " ", " ", "<", "a", "t", "t", " ", "n", "a", "m", "e",
     "=", "\"", "S", "e", "q", "u", "e", "n", "c", "e", " ", "L", "e",
     "n", "g", "t", "h", "\"", " ", "t", "y", "p", "e", "=", "\"", "i",
     "n", "t", "e", "g", "e", "r", "\"", " ", "v", "a", "l", "u", "e",
     "=", "\"" >>

\* from there to {sequence},
TplNodeSequence ==
  << "\"", " ", "/", ">", "\n", " ", " ", " ", " ", "<", "a", "t", "t",
     " ", "t", "y", "p", "e", "=", "\"", "l", "i", "s", "t", "\"", " ",
     "n", "a", "m", "e", "=", "\"", "O", "t", "h", "e", "r", " ", "I",
     "D", "s", "\"", ">", "\n", " ", " ", " ", " ", " ", " ", "<", "a",
     "t", "t", " ", "t", "y", "p", "e", "=", "\"", "s", "t", "r", "i",
     "n", "g", "\"", " ", "n", "a", "m", "e", "=", "\"", "O", "t", "h",
     "e", "r", " ", "I", "D", "s", "\"", " ", "v", "a", "l", "u", "e",
     "=", "\"", "N", "o", "n", "e", "\"", " ", "/", ">", "\n", " ", " ",
     " ", " ", "<", "/", "a", "t", "t", ">", "\n", " ", " ", " ", " ",
     "<", "a", "t", "t", " ", "n", "a", "m", "e", "=", "\"", "S", "e",
     "q", "u", "e", "n", "c", "e", "\"", " ", "t", "y", "p", "e", "=",
     "\"", "s", "t", "r", "i", "n", "g", "\"", " ", "v", "a", "l", "u",
     "e", "=", "\"" >>

\* from there to {description},
TplNodeDescription ==
  << "\"", " ", "/", ">", "\n", " ", " ", " ", " ", "<", "a", "t", "t",
     " ", "t", "y", "p", "e", "=", "\"", "l", "i", "s", "t", "\"", " ",
     "n", "a", "m", "e", "=", "\"", "D", "e", "s", "c", "r", "i", "p",
     "t", "i", "o", "n", "\"", ">", "\n", " ", " ", " ", " ", " ", " ",
     "<", "a", "t", "t", " ", "t", "y", "p", "e", "=", "\"", "s", "t",
     "r", "i", "n", "g", "\"", " ", "n", "a", "m", "e", "=", "\"", "D",
     "e", "s", "c", "r", "i", "p", "t", "i", "o", "n", "\"", " ", "v",
     "a", "l", "u", "e", "=", "\"" >>

\* and after {description}.
TplNodeEnd ==
  << "\"", " ", "/", ">", "\n", " ", " ", " ", " ", "<", "/", "a", "t",
     "t", ">", "\n", " ", " ", "<", "/", "n", "o", "d", "e", ">" >>

Unknown == << "U", "n", "k", "n", "o", "w", "n" >>

\* Mutant of first_match: the keys compared as they are spelled.
RECURSIVE first_match_exact(_, _, _)
first_match_exact(m, node_id, i) ==
  IF i > Len(m) THEN 0
  ELSE IF m[i].k = node_id THEN i
  ELSE first_match_exact(m, node_id, i + 1)

\* Mutant of first_match: a key spelled as the identifier is preferred to an
\* earlier key that is equal to it only without regard to case.
first_match_preferring_exact(m, node_id, i) ==
  IF \E j \in i..Len(m) : m[j].k = node_id
  THEN CHOOSE j \in i..Len(m) : m[j].k = node_id
  ELSE IF \E j \in i..Len(m) : upper(m[j].k) = upper(node_id)
  THEN CHOOSE j \in i..Len(m) :
         /\ upper(m[j].k) = upper(node_id)
         /\ \A h \in i..(j - 1) : upper(m[h].k) # upper(node_id)
  ELSE 0

\* for key, value in m.items(): if key.upper() == node_id.upper(): ... break
\* The index of the entry the loop stops at, 0 when it runs to the end.
RECURSIVE first_match(_, _, _)
first_match(m, node_id, i) ==
  IF i > Len(m) THEN 0
  ELSE IF upper(m[i].k) = upper(node_id) THEN i
  ELSE first_match(m, node_id, i + 1)

\* The sequence the first loop leaves in the local variable sequence.
node_sequence(node_id, sequences) ==
  LET i == first_match(sequences, node_id, 1)
  IN  IF i = 0 THEN <<>> ELSE sequences[i].v

\* The value the first loop leaves in seq_length.
node_seq_length(node_id, sequences) ==
  LET i == first_match(sequences, node_id, 1)
  IN  IF i = 0 THEN 0 ELSE Len(sequences[i].v)

\* Mutant of node_description: no fallback, the description left empty.
node_description_empty(node_id, descriptions) ==
  LET i == first_match(descriptions, node_id, 1)
  IN  IF i = 0 THEN <<>> ELSE descriptions[i].v

\* The description the second loop leaves in the local variable description.
node_description(node_id, descriptions) ==
  LET i == first_match(descriptions, node_id, 1)
  IN  IF i = 0 THEN Unknown ELSE descriptions[i].v

\* What escaping a value for an XML attribute would make of a character.
escape_char(c) ==
  CASE c = "&" -> << "&", "a", "m", "p", ";" >>
    [] c = "<" -> << "&", "l", "t", ";" >>
    [] c = ">" -> << "&", "g", "t", ";" >>
    [] c = "\"" -> << "&", "q", "u", "o", "t", ";" >>
    [] OTHER -> << c >>

escape(s) == join([i \in 1..Len(s) |-> escape_char(s[i])])

\* Mutant of create_node_xml: the three values escaped for XML.
create_node_xml_escaped(node_id, sequences, descriptions) ==
  TplNodeId \o escape(node_id) \o TplNodeLabel \o escape(node_id)
    \o TplNodeLength \o format_int(node_seq_length(node_id, sequences))
    \o TplNodeSequence \o escape(node_sequence(node_id, sequences))
    \o TplNodeDescription \o escape(node_description(node_id, descriptions))
    \o TplNodeEnd

\* The f-string: the values go in as they are.
create_node_xml(node_id, sequences, descriptions) ==
  TplNodeId \o node_id \o TplNodeLabel \o node_id
    \o TplNodeLength \o format_int(node_seq_length(node_id, sequences))
    \o TplNodeSequence \o node_sequence(node_id, sequences)
    \o TplNodeDescription \o node_description(node_id, descriptions)
    \o TplNodeEnd

\* any(key.upper() == node_id.upper() for key in m.keys())
any_match(m, node_id) ==
  \E i \in 1..Len(m) : upper(m[i].k) = upper(node_id)

(***************************************************************************)
(* rebuild_xgmml                                                           *)
(***************************************************************************)

VARIABLES
  fs,                 \* path -> file: what is on disk
  fs0,                \* fs when rebuild_xgmml was called (history)
  argv,               \* xgmml_file, fasta_file, metadata_file, output_file
  pc,                 \* the statement rebuild_xgmml is at
  sequences,          \* its local variables, by their names in the source
  descriptions,
  node_ids,
  original_content,
  todo,               \* what is left of sorted(node_ids) for the loop
  node_xmls,
  nodes_added,
  nodes_missing_data,
  insert_pos,
  error,              \* the exception rebuild_xgmml raised, "" when none
  opened,             \* the paths opened for writing so far, in order
  results_dir,        \* server.py: RESULTS_DIR, file -> the request whose
                      \* step wrote it (0: no such file)
  fasta_cache_dir,    \* server.py: FASTA_CACHE_DIR, likewise
  handler             \* server.py: request -> its process_fasta call

vars ==
  << fs, fs0, argv, pc, sequences, descriptions, node_ids, original_content,
     todo, node_xmls, nodes_added, nodes_missing_data, insert_pos, error,
     opened, results_dir, fasta_cache_dir, handler >>

\* The state of server.py, which rebuild_xgmml has no part in.
server_vars == << results_dir, fasta_cache_dir, handler >>

\* The files server.py names in RESULTS_DIR and in FASTA_CACHE_DIR.
RequiredFiles ==
  {"ssn.xgmml", "filtered_sequence_metadata.tab", "filtered_sequences.fasta"}

ResultFiles ==
  {"run_nextflow.sh", "ssn/run_nextflow.sh", "results.zip"} \cup RequiredFiles

CacheFiles == {"test.fasta", "test_blastdb"}

\* A directory without files.
EmptyDir(files) == [f \in files |-> 0]

\* No server: the directories as the module leaves them when imported
\* (os.makedirs(..., exist_ok=True)), no request.
ServerNotStarted ==
  /\ results_dir = EmptyDir(ResultFiles)
  /\ fasta_cache_dir = EmptyDir(CacheFiles)
  /\ handler = <<>>

locals ==
  << sequences, descriptions, node_ids, original_content, todo, node_xmls,
     nodes_added, nodes_missing_data, insert_pos >>

FileNotFoundError == "FileNotFoundError"

GraphNotFound == "ValueError: Could not find <graph> opening tag in XGMML file"

EdgeNotFound == "ValueError: Could not find any <edge> elements in XGMML file"

\* with open(path, "r") as f: f.read()
read(path) == universal_newlines(fs[path].data)

\* raise: the exception leaves rebuild_xgmml, nothing after it runs.
raise(e) ==
  /\ pc' = "failed"
  /\ error' = e
  /\ UNCHANGED << fs, fs0, argv, server_vars, opened >>

\* sequences = parse_fasta(fasta_file)
ParseFasta ==
  /\ pc = "parse_fasta"
  /\ \/ /\ ~fs[argv.fasta_file].exists
        /\ raise(FileNotFoundError)
        /\ UNCHANGED locals
     \/ /\ fs[argv.fasta_file].exists
        /\ sequences' = parse_fasta(read(argv.fasta_file))
        /\ pc' = "parse_metadata_tab"
        /\ UNCHANGED << fs, fs0, argv, server_vars, descriptions, node_ids,
                        original_content, todo, node_xmls, nodes_added,
                        nodes_missing_data, insert_pos, error, opened >>

\* descriptions = parse_metadata_tab(metadata_file)
ParseMetadataTab ==
  /\ pc = "parse_metadata_tab"
  /\ \/ /\ ~fs[argv.metadata_file].exists
        /\ raise(FileNotFoundError)
        /\ UNCHANGED locals
     \/ /\ fs[argv.metadata_file].exists
        /\ descriptions' = parse_metadata_tab(read(argv.metadata_file))
        /\ pc' = "extract_node_ids"
        /\ UNCHANGED << fs, fs0, argv, server_vars, sequences, node_ids,
                        original_content, todo, node_xmls, nodes_added,
                        nodes_missing_data, insert_pos, error, opened >>

\* node_ids, original_content = extract_node_ids_from_xgmml(xgmml_file), then
\* node_xmls = [], the two counters = 0 and sorted(node_ids) for the loop.
ExtractNodeIds ==
  /\ pc = "extract_node_ids"
  /\ \/ /\ ~fs[argv.xgmml_file].exists
        /\ raise(FileNotFoundError)
        /\ UNCHANGED locals
     \/ /\ fs[argv.xgmml_file].exists
        /\ original_content' = read(argv.xgmml_file)
        /\ node_ids' = extract_node_ids_from_xgmml(original_content')
        /\ todo' = sorted(node_ids')
        /\ node_xmls' = <<>>
        /\ nodes_added' = 0
        /\ nodes_missing_data' = 0
        /\ pc' = "for_node_id"
        /\ UNCHANGED << fs, fs0, argv, server_vars, sequences, descriptions, insert_pos,
                        error, opened >>

\* Mutant of CreateNode: an identifier with neither a sequence nor a
\* description gets no node element.
CreateNodeIfData ==
  /\ pc = "for_node_id"
  /\ todo # <<>>
  /\ LET node_id    == Head(todo)
         found_seq  == any_match(sequences, node_id)
         found_desc == any_match(descriptions, node_id)
     IN  IF found_seq \/ found_desc
         THEN /\ node_xmls' =
                   Append(node_xmls,
                          create_node_xml(node_id, sequences, descriptions))
              /\ nodes_added' = nodes_added + 1
              /\ nodes_missing_data' =
                   IF ~found_seq \/ ~found_desc
                   THEN nodes_missing_data + 1
                   ELSE nodes_missing_data
         ELSE /\ nodes_missing_data' = nodes_missing_data + 1
              /\ UNCHANGED << node_xmls, nodes_added >>
  /\ todo' = Tail(todo)
  /\ UNCHANGED << fs, fs0, argv, server_vars, pc, sequences, descriptions, node_ids,
                  original_content, insert_pos, error, opened >>

\* One iteration of  for node_id in sorted(node_ids).
CreateNode ==
  /\ pc = "for_node_id"
  /\ todo # <<>>
  /\ LET node_id    == Head(todo)
         found_seq  == any_match(sequences, node_id)
         found_desc == any_match(descriptions, node_id)
     IN  /\ node_xmls' =
              Append(node_xmls, create_node_xml(node_id, sequences, descriptions))
         /\ nodes_added' = nodes_added + 1
         /\ nodes_missing_data' =
              IF ~found_seq \/ ~found_desc
              THEN nodes_missing_data + 1
              ELSE nodes_missing_data
  /\ todo' = Tail(todo)
  /\ UNCHANGED << fs, fs0, argv, server_vars, pc, sequences, descriptions, node_ids,
                  original_content, insert_pos, error, opened >>

\* Mutant of FindGraph: the edge check made before the container check.
FindGraphAfterEdge ==
  /\ pc = "for_node_id"
  /\ todo = <<>>
  /\ \/ /\ ~re_search_tag(original_content, 0, EdgeOpen).found
        /\ raise(EdgeNotFound)
        /\ UNCHANGED locals
     \/ /\ re_search_tag(original_content, 0, EdgeOpen).found
        /\ ~re_search_tag(original_content, 0, GraphOpen).found
        /\ raise(GraphNotFound)
        /\ UNCHANGED locals
     \/ /\ re_search_tag(original_content, 0, EdgeOpen).found
        /\ re_search_tag(original_content, 0, GraphOpen).found
        /\ pc' = "find_edge"
        /\ UNCHANGED << fs, fs0, argv, server_vars, error, opened >>
        /\ UNCHANGED locals

\* graph_match = re.search(graph_pattern, original_content), after the loop.
FindGraph ==
  /\ pc = "for_node_id"
  /\ todo = <<>>
  /\ \/ /\ ~re_search_tag(original_content, 0, GraphOpen).found
        /\ raise(GraphNotFound)
        /\ UNCHANGED locals
     \/ /\ re_search_tag(original_content, 0, GraphOpen).found
        /\ pc' = "find_edge"
        /\ UNCHANGED << fs, fs0, argv, server_vars, error, opened >>
        /\ UNCHANGED locals

\* Mutant of FindEdge: the output file opened for writing (and so emptied)
\* before the edge is looked for.
FindEdgeOutputOpened ==
  /\ pc = "find_edge"
  /\ opened' = Append(opened, argv.output_file)
  /\ fs' = [fs EXCEPT ![argv.output_file] = File(<<>>)]
  /\ LET first_edge_match == re_search_tag(original_content, 0, EdgeOpen)
     IN  \/ /\ ~first_edge_match.found
            /\ pc' = "failed"
            /\ error' = EdgeNotFound
            /\ UNCHANGED << fs0, argv, server_vars >>
            /\ UNCHANGED locals
         \/ /\ first_edge_match.found
            /\ insert_pos' = first_edge_match.start
            /\ pc' = "write"
            /\ UNCHANGED << fs0, argv, server_vars, sequences, descriptions, node_ids,
                            original_content, todo, node_xmls, nodes_added,
                            nodes_missing_data, error >>

\* first_edge_match = re.search(first_edge_pattern, original_content) and
\* insert_pos = first_edge_match.start()
FindEdge ==
  /\ pc = "find_edge"
  /\ LET first_edge_match == re_search_tag(original_content, 0, EdgeOpen)
     IN  \/ /\ ~first_edge_match.found
            /\ raise(EdgeNotFound)
            /\ UNCHANGED locals
         \/ /\ first_edge_match.found
            /\ insert_pos' = first_edge_match.start
            /\ pc' = "write"
            /\ UNCHANGED << fs, fs0, argv, server_vars, sequences, descriptions, node_ids,
                            original_content, todo, node_xmls, nodes_added,
                            nodes_missing_data, error, opened >>

Newline == << "\n" >>

\* Mutant of all_nodes: no newline after the last node element.
all_nodes_unterminated(xmls) == join_lines(xmls, Newline)

\* all_nodes = "\n".join(node_xmls) + "\n"
all_nodes(xmls) == join_lines(xmls, Newline) \o Newline

\* Mutant of new_content: the tail taken from insert_pos + 1, so that the
\* "<" of the first edge is overwritten.
new_content_overwriting(content, pos, xmls) ==
  SubSeq(content, 1, pos) \o all_nodes(xmls)
    \o SubSeq(content, pos + 2, Len(content))

\* new_content = original_content[:insert_pos] + all_nodes
\*               + original_content[insert_pos:]
new_content(content, pos, xmls) ==
  SubSeq(content, 1, pos) \o all_nodes(xmls)
    \o SubSeq(content, pos + 1, Len(content))

\* with open(output_file, "w") as f: f.write(new_content)
Write ==
  /\ pc = "write"
  /\ opened' = Append(opened, argv.output_file)
  /\ fs' = [fs EXCEPT ![argv.output_file] =
              File(new_content(original_content, insert_pos, node_xmls))]
  /\ pc' = "done"
  /\ UNCHANGED << fs0, argv, server_vars, error >>
  /\ UNCHANGED locals

(***************************************************************************)
(* The calls checked: the files on disk and the four arguments             *)
(***************************************************************************)

XgmmlPath == "in.xgmml"

FastaPath == "seqs.fasta"

MetadataPath == "meta.tab"

OutputPath == "out.xgmml"

Paths == {XgmmlPath, FastaPath, MetadataPath, OutputPath}

\* The pieces documents are put together from.
PieceGraph ==
  << "<", "g", "r", "a", "p", "h", ">" >>

PieceEdgeAbA ==
  << "<", "e", "d", "g", "e", " ", "s", "o", "u", "r", "c", "e", "=",
     "\"", "A", "b", "\"", " ", "t", "a", "r", "g", "e", "t", "=", "\"",
     "A", "\"", "/", ">" >>

PieceEdgeaAb ==
  << "<", "e", "d", "g", "e", " ", "t", "a", "r", "g", "e", "t", "=",
     "\"", "a", "\"", " ", "s", "o", "u", "r", "c", "e", "=", "\"", "A",
     "b", "\"", "/", ">" >>

PieceEdgeaa ==
  << "<", "e", "d", "g", "e", " ", "s", "o", "u", "r", "c", "e", "=",
     "\"", "a", "\"", " ", "t", "a", "r", "g", "e", "t", "=", "\"", "a",
     "\"", ">" >>

PieceEdgeNoIds ==
  << "<", "e", "d", "g", "e", " ", "i", "d", "=", "\"", "e", "\"", ">" >>

PieceCrLf ==
  << "\r", "\n" >>

DocPieces ==
  {PieceGraph, PieceEdgeAbA, PieceEdgeaAb, PieceEdgeaa, PieceEdgeNoIds,
   PieceCrLf}

\* The number of pieces of a document.
MaxPieces == 3

\* Every concatenation of at most n pieces of P.
Texts(P, n) == {join(l) : l \in UNION {[1..k -> P] : k \in 0..n}}

Documents == Texts(DocPieces, MaxPieces)

\* The sequence files.
FastaTwo ==
  << ">", "A", "\n", "M", "K", "V", "L", "S", "T", "M", "K", "V", "\n",
     "L", "S", "T", "\n", ">", "b", "\n", "M", "K", "\n" >>

FastaCases ==
  << ">", "a", "\n", "M", "\n", ">", "A", "\n", "K", "V", "\n", ">", "A",
     "B", "\n" >>

FastaFiles == {NoFile, File(FastaTwo), File(FastaCases)}

\* The metadata files.
MetadataOne ==
  << "i", "d", "\t", "a", "t", "t", "r", "\t", "v", "a", "l", "\n", "A",
     "\t", "D", "e", "s", "c", "r", "i", "p", "t", "i", "o", "n", "\t",
     "K", "i", "n", "a", "s", "e", "\n", "A", "\t", "L", "e", "n", "g",
     "t", "h", "\t", "6", "\n" >>

MetadataCases ==
  << "i", "d", "\t", "a", "t", "t", "r", "\t", "v", "a", "l", "\n", "a",
     "B", "\t", "D", "e", "s", "c", "r", "i", "p", "t", "i", "o", "n",
     "\t", "X", "\n", "a", "\t", "D", "e", "s", "c", "r", "i", "p", "t",
     "i", "o", "n", "\t", "Y", "\n" >>

MetadataFiles == {NoFile, File(MetadataOne), File(MetadataCases)}

\* What the output path holds before the call.
OldOutput == << "o", "l", "d" >>

\* The output path is a path of its own, holding a file or not, or it is the
\* path of the document.
Init ==
  /\ \E d \in {NoFile} \cup {File(t) : t \in Documents},
        f \in FastaFiles, m \in MetadataFiles,
        o \in {NoFile, File(OldOutput)}, out \in {OutputPath, XgmmlPath} :
       /\ out = XgmmlPath => o = NoFile
       /\ fs = [p \in Paths |->
                  CASE p = XgmmlPath -> d
                    [] p = FastaPath -> f
                    [] p = MetadataPath -> m
                    [] OTHER -> o]
       /\ argv = [xgmml_file |-> XgmmlPath, fasta_file |-> FastaPath,
                  metadata_file |-> MetadataPath, output_file |-> out]
  /\ fs0 = fs
  /\ pc = "parse_fasta"
  /\ sequences = <<>>
  /\ descriptions = <<>>
  /\ node_ids = {}
  /\ original_content = <<>>
  /\ todo = <<>>
  /\ node_xmls = <<>>
  /\ nodes_added = 0
  /\ nodes_missing_data = 0
  /\ insert_pos = 0
  /\ error = ""
  /\ opened = <<>>
  /\ ServerNotStarted

Next ==
  \/ ParseFasta
  \/ ParseMetadataTab
  \/ ExtractNodeIds
  \/ CreateNode
  \/ FindGraph
  \/ FindEdge
  \/ Write

Spec == Init /\ [][Next]_vars

(***************************************************************************)
(* What the claims speak of, stated without the operators of the model     *)
(***************************************************************************)

\* The document text of the call: what reading the document file gives.
DocumentText == universal_newlines(fs0[argv.xgmml_file].data)

\* The three input files can be read.
InputsReadable ==
  /\ fs0[argv.fasta_file].exists
  /\ fs0[argv.metadata_file].exists
  /\ fs0[argv.xgmml_file].exists

Finished == pc \in {"done", "failed"}

\* At the offset i (counted from 0) of t an opening tag <name ...> begins:
\* the characters "<name" and, somewhere after them, a ">".
IsOpeningTagAt(t, i, name) ==
  /\ i + Len(name) < Len(t)
  /\ \A k \in 1..Len(name) : t[i + k] = name[k]
  /\ \E j \in (i + Len(name) + 1)..Len(t) : t[j] = ">"

HasOpeningTag(t, name) == \E i \in 0..(Len(t) - 1) : IsOpeningTagAt(t, i, name)

\* The offset of the first opening tag <name ...> of t.
FirstTagOffset(t, name) ==
  CHOOSE i \in 0..(Len(t) - 1) :
    /\ IsOpeningTagAt(t, i, name)
    /\ \A j \in 0..(i - 1) : ~IsOpeningTagAt(t, j, name)

\* The texts of l one after the other, each followed by a newline.
RECURSIVE EachOnItsLine(_)
EachOnItsLine(l) ==
  IF l = <<>> THEN <<>> ELSE l[1] \o << "\n" >> \o EachOnItsLine(Tail(l))

\* The inserted block: the node elements each on its own line (a lone
\* newline when there is no node element).
NodeBlock(xmls) == IF xmls = <<>> THEN << "\n" >> ELSE EachOnItsLine(xmls)

\* a < b in the lexicographic order of the code points.
LexLess(a, b) ==
  \E k \in 0..Len(a) :
    /\ k <= Len(b)
    /\ \A j \in 1..k : a[j] = b[j]
    /\ \/ k = Len(a) /\ k < Len(b)
       \/ k < Len(a) /\ k < Len(b) /\ Ord[a[k + 1]] < Ord[b[k + 1]]

\* The elements of the set S of texts in ascending order.
Ascending(S) ==
  [i \in 1..Cardinality(S) |->
     CHOOSE x \in S : Cardinality({y \in S : LexLess(y, x)}) = i - 1]

\* The text t holds the text pat somewhere.
Contains(t, pat) ==
  \E i \in 1..(Len(t) - Len(pat) + 1) :
    t[i] = pat[1] /\ SubSeq(t, i, i + Len(pat) - 1) = pat

\* How often pat occurs in t.
Occurrences(t, pat) ==
  Cardinality({i \in 1..(Len(t) - Len(pat) + 1) :
                 t[i] = pat[1] /\ SubSeq(t, i, i + Len(pat) - 1) = pat})

\* The part of the written file between the offsets p and p + n.
WrittenText == fs[argv.output_file].data

C2_NodesAscending ==
  pc = "done" =>
    LET ids == Ascending(node_ids)
        T   == DocumentText
        p   == FirstTagOffset(T, EdgeOpen)
    IN  /\ Len(node_xmls) = Len(ids)
        /\ \A i \in 1..Len(ids) :
             node_xmls[i] = create_node_xml(ids[i], sequences, descriptions)
        /\ \A i \in 1..(Len(ids) - 1) : LexLess(ids[i], ids[i + 1])
        /\ WrittenText =
             SubSeq(T, 1, p) \o NodeBlock(node_xmls) \o SubSeq(T, p + 1, Len(T))

\* Three identifiers met in the edges in an order that is not the ascending
\* one ("Ab" first), and whose order without regard to case would differ.
C2_Witness ==
  /\ pc = "done"
  /\ Cardinality(node_ids) = 3
  /\ starts_at(original_content, 1, PieceGraph \o PieceEdgeaAb)

(***************************************************************************)
(* C3: on success the inserted block holds one node element for each       *)
(* identifier of the reference set and none for another identifier: as     *)
(* many node elements as the set has members, however many edges name an   *)
(* identifier and whether or not a sequence or a description exists for it.*)
(***************************************************************************)
C3_OneNodePerIdentifier ==
  pc = "done" =>
    LET T     == DocumentText
        n     == Len(WrittenText) - Len(T)
        block == SubSeq(WrittenText, insert_pos + 1, insert_pos + n)
    IN  /\ Len(node_xmls) = Cardinality(node_ids)
        /\ nodes_added = Cardinality(node_ids)
        /\ Occurrences(block, TplNodeId) = Cardinality(node_ids)
        /\ \A id \in node_ids :
             Cardinality({i \in 1..Len(node_xmls) :
                            starts_at(node_xmls[i], 1,
                                      TplNodeId \o id \o TplNodeLabel \o id
                                        \o << "\"", ">" >>)}) = 1
        /\ \A i \in 1..Len(node_xmls) :
             \E id \in node_ids :
               starts_at(node_xmls[i], 1,
                         TplNodeId \o id \o TplNodeLabel \o id \o << "\"", ">" >>)

\* Two edges naming the same identifiers, one of them with neither a
\* sequence nor a description.
C3_Witness ==
  /\ pc = "done"
  /\ Cardinality(node_ids) = 2
  /\ Len(findall_edge_attr(original_content, 0, SourceAttr)) = 2
  /\ nodes_missing_data >= 1
  /\ \E id \in node_ids :
       ~any_match(sequences, id) /\ ~any_match(descriptions, id)

(***************************************************************************)
(* C4: a document text without a graph opening tag ends the run with the   *)
(* error "opening tag not found", also when it has no edge opening tag     *)
(* either (the container is checked first); one with a graph opening tag   *)
(* and no edge opening tag ends it with "no edge elements found"; in both  *)
(* cases nothing is opened for writing and no file is created or changed.  *)
(***************************************************************************)
C4_StructuralErrors ==
  (Finished /\ InputsReadable) =>
    /\ ~HasOpeningTag(DocumentText, GraphOpen) =>
         /\ pc = "failed"
         /\ error = GraphNotFound
         /\ opened = <<>>
         /\ fs = fs0
    /\ (/\ HasOpeningTag(DocumentText, GraphOpen)
        /\ ~HasOpeningTag(DocumentText, EdgeOpen)) =>
         /\ pc = "failed"
         /\ error = EdgeNotFound
         /\ opened = <<>>
         /\ fs = fs0

\* A document with neither tag: the container error is the one raised.
C4_Witness ==
  /\ pc = "failed"
  /\ InputsReadable
  /\ error = GraphNotFound
  /\ ~HasOpeningTag(DocumentText, EdgeOpen)
  /\ ~fs[argv.output_file].exists

(***************************************************************************)
(* C5: the run is all-or-nothing.  The output path is opened for writing   *)
(* once, as the last step, after the three inputs were read and both       *)
(* anchors were found; until then, and for ever on a failed run, no path   *)
(* was opened for writing and every file is as it was at the call.         *)
(***************************************************************************)
C5_AllOrNothing ==
  /\ pc # "done" => opened = <<>> /\ fs = fs0
  /\ pc = "failed" => error # ""
  /\ opened # <<>> =>
       /\ pc = "done"
       /\ opened = << argv.output_file >>
       /\ InputsReadable
       /\ sequences = parse_fasta(universal_newlines(fs0[argv.fasta_file].data))
       /\ descriptions =
            parse_metadata_tab(universal_newlines(fs0[argv.metadata_file].data))
       /\ original_content = DocumentText
       /\ HasOpeningTag(original_content, GraphOpen)
       /\ HasOpeningTag(original_content, EdgeOpen)
       /\ \A q \in Paths \ {argv.output_file} : fs[q] = fs0[q]

\* A run that failed on the structure of the document with a file already
\* at the output path.
C5_Witness ==
  /\ pc = "failed"
  /\ error = EdgeNotFound
  /\ fs[argv.output_file] = File(OldOutput)

(***************************************************************************)
(* create_node_xml on its own: one identifier and two mappings             *)
(***************************************************************************)

\* The number of entries of a mapping.
MaxEntries == 2

\* The mappings of at most n entries with keys in K and values in V.
Mappings(K, V, n) ==
  {m \in UNION {[1..k -> [k : K, v : V]] : k \in 0..n} :
     \A i, j \in 1..Len(m) : i # j => m[i].k # m[j].k}

\* Spellings of one identifier, and another identifier.
IdAb ==
  << "A", "b" >>

IdaB ==
  << "a", "B" >>

IdA ==
  << "A" >>

\* Sequences and descriptions.
SeqShort ==
  << "M", "K", "V" >>

SeqLong ==
  << "M", "K", "V", "L", "S", "T", "M", "K", "V", "L", "S", "T" >>

DescKinase ==
  << "K", "i", "n", "a", "s", "e" >>

DescX ==
  << "X" >>

InitNode ==
  /\ \E n \in {IdAb, IdaB, IdA},
        S \in Mappings({IdAb, IdaB, IdA}, {<<>>, SeqShort, SeqLong}, MaxEntries),
        D \in Mappings({IdAb, IdaB, IdA}, {DescKinase, DescX}, MaxEntries) :
       /\ node_ids = {n}
       /\ todo = << n >>
       /\ sequences = S
       /\ descriptions = D
  /\ fs = [p \in Paths |-> NoFile]
  /\ fs0 = fs
  /\ argv = [xgmml_file |-> XgmmlPath, fasta_file |-> FastaPath,
             metadata_file |-> MetadataPath, output_file |-> OutputPath]
  /\ pc = "for_node_id"
  /\ original_content = <<>>
  /\ node_xmls = <<>>
  /\ nodes_added = 0
  /\ nodes_missing_data = 0
  /\ insert_pos = 0
  /\ error = ""
  /\ opened = <<>>
  /\ ServerNotStarted

SpecNode == InitNode /\ [][CreateNode]_vars

\* The attributes of a node element up to their values, and the end of one.
AttrSequenceLength ==
  << "n", "a", "m", "e", "=", "\"", "S", "e", "q", "u", "e", "n", "c",
     "e", " ", "L", "e", "n", "g", "t", "h", "\"", " ", "t", "y", "p",
     "e", "=", "\"", "i", "n", "t", "e", "g", "e", "r", "\"", " ", "v",
     "a", "l", "u", "e", "=", "\"" >>

AttrSequence ==
  << "n", "a", "m", "e", "=", "\"", "S", "e", "q", "u", "e", "n", "c",
     "e", "\"", " ", "t", "y", "p", "e", "=", "\"", "s", "t", "r", "i",
     "n", "g", "\"", " ", "v", "a", "l", "u", "e", "=", "\"" >>

AttrDescription ==
  << "n", "a", "m", "e", "=", "\"", "D", "e", "s", "c", "r", "i", "p",
     "t", "i", "o", "n", "\"", " ", "v", "a", "l", "u", "e", "=", "\"" >>

AttrEnd ==
  << "\"", " ", "/", ">" >>

\* The node element x has the identifier n as its id and as its label.
HasIdAndLabel(x, n) ==
  starts_at(x, 1, TplNodeId \o n \o TplNodeLabel \o n \o << "\"", ">", "\n" >>)

\* The node element x carries the value v under the attribute attr.
Carries(x, attr, v) == Contains(x, attr \o v \o AttrEnd)

\* The i-th key of m is equal to n without regard to case.
MatchesAt(m, i, n) == upper(m[i].k) = upper(n)

\* ... and no earlier key of m is.
FirstMatchAt(m, i, n) ==
  MatchesAt(m, i, n) /\ \A j \in 1..(i - 1) : ~MatchesAt(m, j, n)

(***************************************************************************)
(* C6 as it is claimed: for an identifier n and any keys h and d with      *)
(* upper(h) = upper(n) = upper(d), the node element carries the sequence   *)
(* stored under h and the description stored under d, and has n as id and  *)
(* label.                                                                  *)
(***************************************************************************)
C6_AnyMatchingKey ==
  node_xmls # <<>> =>
    \A n \in node_ids :
      \A i \in 1..Len(sequences), j \in 1..Len(descriptions) :
        (MatchesAt(sequences, i, n) /\ MatchesAt(descriptions, j, n)) =>
          /\ Carries(node_xmls[1], AttrSequence, sequences[i].v)
          /\ Carries(node_xmls[1], AttrDescription, descriptions[j].v)
          /\ HasIdAndLabel(node_xmls[1], n)

(***************************************************************************)
(* C6, amended: the same for h the first key of the sequence mapping (in   *)
(* insertion order) with upper(h) = upper(n) and d the first such key of   *)
(* the annotation mapping.                                                 *)
(***************************************************************************)
C6_FirstMatchingKey ==
  node_xmls # <<>> =>
    \A n \in node_ids :
      \A i \in 1..Len(sequences), j \in 1..Len(descriptions) :
        (FirstMatchAt(sequences, i, n) /\ FirstMatchAt(descriptions, j, n)) =>
          /\ Carries(node_xmls[1], AttrSequence, sequences[i].v)
          /\ Carries(node_xmls[1], AttrDescription, descriptions[j].v)
          /\ HasIdAndLabel(node_xmls[1], n)

\* The identifier "Ab" served by the header "aB" and a description under a
\* third spelling.
C6_Witness ==
  /\ node_xmls # <<>>
  /\ node_ids = {IdAb}
  /\ Len(sequences) >= 1 /\ sequences[1].k = IdaB /\ sequences[1].v = SeqShort
  /\ Len(descriptions) = 2 /\ descriptions[2].k = IdaB
  /\ descriptions[1].k = IdA
  /\ Carries(node_xmls[1], AttrSequence, SeqShort)
  /\ Carries(node_xmls[1], AttrDescription, descriptions[2].v)

(***************************************************************************)
(* C7: an identifier no key of the sequence mapping matches gets the       *)
(* Sequence "" and the Sequence Length 0, one no key of the annotation     *)
(* mapping matches the Description "Unknown"; the Sequence Length of a     *)
(* node is the number of characters of its Sequence; the shortfalls raise  *)
(* no error and do not keep the output from being written: they are        *)
(* counted in nodes_missing_data and that is all.                          *)
(***************************************************************************)
Digits == << "0", "1", "2", "3", "4", "5", "6", "7", "8", "9" >>

\* The number the digits d write.
RECURSIVE Value(_)
Value(d) ==
  IF d = <<>> THEN 0
  ELSE 10 * Value(SubSeq(d, 1, Len(d) - 1))
         + ((CHOOSE i \in 1..10 : Digits[i] = d[Len(d)]) - 1)

\* The decimal numeral of n < 100.
Decimal(n) ==
  CHOOSE d \in UNION {[1..k -> Range(Digits)] : k \in 1..2} :
    Value(d) = n /\ (Len(d) > 1 => d[1] # "0")

NoKeyMatches(m, n) == \A i \in 1..Len(m) : ~MatchesAt(m, i, n)

C7_Shortfalls ==
  LET ids == Ascending(node_ids)
  IN  /\ \A i \in 1..Len(node_xmls) :
           /\ NoKeyMatches(sequences, ids[i]) =>
                /\ Carries(node_xmls[i], AttrSequence, <<>>)
                /\ Carries(node_xmls[i], AttrSequenceLength, << "0" >>)
           /\ NoKeyMatches(descriptions, ids[i]) =>
                Carries(node_xmls[i], AttrDescription, Unknown)
           /\ \E v \in {<<>>} \cup {sequences[j].v : j \in 1..Len(sequences)} :
                /\ Carries(node_xmls[i], AttrSequence, v)
                /\ Carries(node_xmls[i], AttrSequenceLength, Decimal(Len(v)))
      /\ nodes_missing_data =
           Cardinality({i \in 1..Len(node_xmls) :
                          \/ NoKeyMatches(sequences, ids[i])
                          \/ NoKeyMatches(descriptions, ids[i])})
      /\ error \in {"", FileNotFoundError, GraphNotFound, EdgeNotFound}
      /\ error = FileNotFoundError => ~InputsReadable
      /\ (/\ Finished
          /\ InputsReadable
          /\ HasOpeningTag(DocumentText, GraphOpen)
          /\ HasOpeningTag(DocumentText, EdgeOpen))
         => /\ pc = "done"
            /\ error = ""
            /\ WrittenText =
                 SubSeq(DocumentText, 1, insert_pos) \o NodeBlock(node_xmls)
                   \o SubSeq(DocumentText, insert_pos + 1, Len(DocumentText))

\* An output written with a node of a sequence of twelve characters and a
\* node that has neither a sequence nor a description.
C7_Witness ==
  /\ pc = "done"
  /\ nodes_missing_data >= 1
  /\ fs[argv.output_file].exists
  /\ \E i \in 1..Len(node_xmls) :
       Carries(node_xmls[i], AttrSequenceLength, << "1", "2" >>)
  /\ \E i \in 1..Len(node_xmls) :
       /\ NoKeyMatches(sequences, Ascending(node_ids)[i])
       /\ NoKeyMatches(descriptions, Ascending(node_ids)[i])
       /\ Carries(node_xmls[i], AttrSequenceLength, << "0" >>)
       /\ Carries(node_xmls[i], AttrDescription, Unknown)

(***************************************************************************)
(* The parsers and the extractor on their own                              *)
(***************************************************************************)

\* The state of a call whose files are f (sequences), m (metadata) and d
\* (document), at the statement at.
InitAt(at, f, m, d) ==
  /\ fs = [p \in Paths |->
             CASE p = XgmmlPath -> d
               [] p = FastaPath -> f
               [] p = MetadataPath -> m
               [] OTHER -> NoFile]
  /\ fs0 = fs
  /\ argv = [xgmml_file |-> XgmmlPath, fasta_file |-> FastaPath,
             metadata_file |-> MetadataPath, output_file |-> OutputPath]
  /\ pc = at
  /\ sequences = <<>>
  /\ descriptions = <<>>
  /\ node_ids = {}
  /\ original_content = <<>>
  /\ todo = <<>>
  /\ node_xmls = <<>>
  /\ nodes_added = 0
  /\ nodes_missing_data = 0
  /\ insert_pos = 0
  /\ error = ""
  /\ opened = <<>>
  /\ ServerNotStarted

\* The pieces metadata files are put together from: rows.
RowHeader ==
  << "i", "d", "\t", "a", "t", "t", "r", "\t", "v", "a", "l", "\n" >>

RowP1K ==
  << "P", "1", "\t", "D", "e", "s", "c", "r", "i", "p", "t", "i", "o",
     "n", "\t", "K", "\n" >>

RowP1L ==
  << "P", "1", "\t", "D", "e", "s", "c", "r", "i", "p", "t", "i", "o",
     "n", "\t", "L", "\n" >>

RowP1Length ==
  << "P", "1", "\t", "L", "e", "n", "g", "t", "h", "\t", "M", "\n" >>

RowP2NoNewline ==
  << "P", "2", "\t", "D", "e", "s", "c", "r", "i", "p", "t", "i", "o",
     "n", "\t", "K" >>

RowTwoFields ==
  << "P", "1", "\t", "D", "e", "s", "c", "r", "i", "p", "t", "i", "o",
     "n", "\n" >>

RowLeadingTab ==
  << "\t", "P", "3", "\t", "D", "e", "s", "c", "r", "i", "p", "t", "i",
     "o", "n", "\t", "K", "\n" >>

RowEmptyValue ==
  << "P", "4", "\t", "D", "e", "s", "c", "r", "i", "p", "t", "i", "o",
     "n", "\t", "\n" >>

MetadataPieces ==
  {RowHeader, RowP1K, RowP1L, RowP1Length, RowP2NoNewline, RowTwoFields,
   RowLeadingTab, RowEmptyValue}

\* The number of pieces of a metadata file.
MaxRows == 3

InitMetadata ==
  \E m \in {NoFile} \cup {File(t) : t \in Texts(MetadataPieces, MaxRows)} :
    InitAt("parse_metadata_tab", NoFile, m, NoFile)

SpecMetadata == InitMetadata /\ [][ParseMetadataTab]_vars

\* The pieces of the documents the extractor is run on.
XEdgeAB ==
  << "<", "e", "d", "g", "e", " ", "s", "o", "u", "r", "c", "e", "=",
     "\"", "A", "\"", " ", "t", "a", "r", "g", "e", "t", "=", "\"", "B",
     "\"", "/", ">" >>

XEdgeCA ==
  << "<", "e", "d", "g", "e", " ", "i", "d", "=", "\"", "e", "\"", " ",
     "t", "a", "r", "g", "e", "t", "=", "\"", "A", "\"", " ", "s", "o",
     "u", "r", "c", "e", "=", "\"", "C", "\"", ">" >>

XNode ==
  << "<", "n", "o", "d", "e", " ", "s", "o", "u", "r", "c", "e", "=",
     "\"", "N", "\"", " ", "i", "d", "=", "\"", "n", "\"", "/", ">" >>

XEdgeDatasource ==
  << "<", "e", "d", "g", "e", " ", "s", "o", "u", "r", "c", "e", "=",
     "\"", "A", "\"", " ", "t", "a", "r", "g", "e", "t", "=", "\"", "B",
     "\"", " ", "d", "a", "t", "a", "s", "o", "u", "r", "c", "e", "=",
     "\"", "D", "\"", "/", ">" >>

XEdgeatt ==
  << "<", "e", "d", "g", "e", "a", "t", "t", " ", "s", "o", "u", "r",
     "c", "e", "=", "\"", "Z", "\"", "/", ">" >>

ExtractPieces == {XEdgeAB, XEdgeCA, XNode, XEdgeDatasource, XEdgeatt}

\* The number of pieces of such a document.
MaxElements == 3

InitExtract ==
  \E d \in {NoFile} \cup {File(t) : t \in Texts(ExtractPieces, MaxElements)} :
    InitAt("extract_node_ids", NoFile, NoFile, d)

SpecExtract == InitExtract /\ [][ExtractNodeIds]_vars

\* The pieces sequence files are put together from.
RecP1 ==
  << ">", "P", "1", "\n" >>

RecP2 ==
  << ">", "P", "2", "\n" >>

RecMarker ==
  << ">" >>

BodyMKV ==
  << "M", "K", "V", "\n" >>

BodySpace ==
  << "L", " ", "T" >>

BodyBlank ==
  << "\n" >>

BodyTabCrLf ==
  << "M", "\t", "K", "\r", "\n" >>

FastaPieces ==
  {RecP1, RecP2, RecMarker, BodyMKV, BodySpace, BodyBlank, BodyTabCrLf}

\* The number of pieces of a sequence file.
MaxLines == 4

InitFasta ==
  \E f \in {NoFile} \cup {File(t) : t \in Texts(FastaPieces, MaxLines)} :
    InitAt("parse_fasta", f, NoFile, NoFile)

SpecFasta == InitFasta /\ [][ParseFasta]_vars

(***************************************************************************)
(* Lines, fields and records as the claims speak of them                   *)
(***************************************************************************)

\* The parts of s between the occurrences of the character c.
Segments(s, c) ==
  LET P   == {i \in 1..Len(s) : s[i] = c}
      n   == Cardinality(P)
      cut == [k \in 0..(n + 1) |->
                IF k = 0 THEN 0
                ELSE IF k = n + 1 THEN Len(s) + 1
                ELSE CHOOSE i \in P : Cardinality({j \in P : j < i}) = k - 1]
  IN  [k \in 1..(n + 1) |-> SubSeq(s, cut[k - 1] + 1, cut[k] - 1)]

\* The lines of a text, without their newlines.
LinesOf(t) ==
  LET l == Segments(t, "\n")
  IN  IF l[Len(l)] = <<>> THEN SubSeq(l, 1, Len(l) - 1) ELSE l

\* s without the whitespace around it.
Trimmed(s) ==
  LET I == {i \in 1..Len(s) : s[i] \notin Whitespace}
  IN  IF I = {} THEN <<>>
      ELSE SubSeq(s, CHOOSE a \in I : \A i \in I : a <= i,
                     CHOOSE b \in I : \A i \in I : i <= b)

\* The texts of l one after the other.
RECURSIVE Concatenated(_)
Concatenated(l) == IF l = <<>> THEN <<>> ELSE l[1] \o Concatenated(Tail(l))

\* The metadata text read, its rows and the columns of a row as written.
MetadataText == universal_newlines(fs0[argv.metadata_file].data)

Columns(row) == Segments(row, "\t")

\* Row r of the rows is a Description row: not the header, at least three
\* columns, the attribute name (column 1) exactly "Description".
IsDescriptionRow(rows, r) ==
  /\ r >= 2
  /\ Len(Columns(rows[r])) >= 3
  /\ Columns(rows[r])[2] = Description

(***************************************************************************)
(* C8 as it is claimed: in the mapping parse_metadata_tab returns, every   *)
(* entry comes from a row after the header whose attribute name is exactly *)
(* "Description" (no other row, nor the header, creates or overwrites      *)
(* one), and each identifier with such rows has the value of the last of   *)
(* them.                                                                   *)
(***************************************************************************)
C8_DescriptionRowsOnly ==
  pc = "extract_node_ids" =>
    LET rows == LinesOf(MetadataText)
    IN  /\ \A key \in keys(descriptions) :
             \E r \in 1..Len(rows) :
               IsDescriptionRow(rows, r) /\ Columns(rows[r])[1] = key
        /\ \A r \in 1..Len(rows) :
             (/\ IsDescriptionRow(rows, r)
              /\ \A q \in (r + 1)..Len(rows) :
                   ~(/\ IsDescriptionRow(rows, q)
                     /\ Columns(rows[q])[1] = Columns(rows[r])[1]))
             => /\ Columns(rows[r])[1] \in keys(descriptions)
                /\ get(descriptions, Columns(rows[r])[1]) = Columns(rows[r])[3]

(***************************************************************************)
(* Edge elements and their attributes, as XML has them                     *)
(***************************************************************************)

\* At the index i of t the tag of an edge element begins: "<edge" and then
\* the end of the name.
IsEdgeElementAt(t, i) ==
  /\ i + Len(EdgeOpen) <= Len(t)
  /\ \A k \in 1..Len(EdgeOpen) : t[i + k - 1] = EdgeOpen[k]
  /\ t[i + Len(EdgeOpen)] \in Whitespace \cup {"/", ">"}

\* The index of the ">" that ends the tag beginning at i (past the end of
\* the text when there is none).
TagEnd(t, i) ==
  IF \E j \in i..Len(t) : t[j] = ">"
  THEN CHOOSE j \in i..Len(t) : t[j] = ">" /\ \A k \in i..(j - 1) : t[k] # ">"
  ELSE Len(t) + 1

\* The values of the attribute spelled attr (as in  source=") of the tag
\* beginning at i: the name follows whitespace, the value ends at the next
\* quote, inside the tag.
AttributeValues(t, i, attr) ==
  LET e == TagEnd(t, i)
      J == {j \in i..e :
              /\ j + Len(attr) < e
              /\ t[j] \in Whitespace
              /\ \A k \in 1..Len(attr) : t[j + k] = attr[k]
              /\ \E q \in (j + Len(attr) + 1)..(e - 1) : t[q] = "\""}
  IN  {SubSeq(t, j + Len(attr) + 1,
              (CHOOSE q \in (j + Len(attr) + 1)..(e - 1) :
                 /\ t[q] = "\""
                 /\ \A k \in (j + Len(attr) + 1)..(q - 1) : t[k] # "\"") - 1) :
         j \in J}

\* The source and target values of the edge elements of t.
EdgeReferences(t) ==
  UNION {AttributeValues(t, i, SourceAttr) \cup AttributeValues(t, i, TargetAttr) :
           i \in {i \in 1..Len(t) : IsEdgeElementAt(t, i)}}

(***************************************************************************)
(* C9 as it is claimed: extract_node_ids_from_xgmml returns exactly the    *)
(* source and target values of the edge elements of the document: each of  *)
(* them, once, in whatever order the attributes stand, and no value of     *)
(* another element or of another attribute.                                *)
(***************************************************************************)
C9_ExactlyEdgeReferences ==
  pc = "for_node_id" => node_ids = EdgeReferences(original_content)

(***************************************************************************)
(* Records of a sequence file                                              *)
(***************************************************************************)

FastaText == universal_newlines(fs0[argv.fasta_file].data)

\* The records: what follows each marker, up to the next one.
Records(t) == Tail(Segments(t, ">"))

\* As the claim has it: the identifier is the first line of the record,
\* trimmed, the body the concatenation of the lines after it.
HeaderOf(rec) == Trimmed(Segments(rec, "\n")[1])

BodyOf(rec) == Concatenated(Tail(Segments(rec, "\n")))

\* As amended: both taken from the record without the whitespace around
\* it, the body without its space characters.
StrippedHeaderOf(rec) == Trimmed(Segments(Trimmed(rec), "\n")[1])

StrippedBodyOf(rec) ==
  SelectSeq(Concatenated(Tail(Segments(Trimmed(rec), "\n"))),
            LAMBDA c : c # " ")

\* Record i is the last of the records R with its header, by the reading
\* Header of the header.
IsLastOfHeader(R, i, Header(_)) ==
  \A j \in (i + 1)..Len(R) : Header(R[j]) # Header(R[i])

IdQuote ==
  << "A", "\"", "b" >>

IdQuoteLower ==
  << "a", "\"", "B" >>

IdMarkup ==
  << "<", "&", ">" >>

SeqMarkup ==
  << "M", "<", "K", "&", "\"", "V" >>

DescMarkup ==
  << "K", "&", "\"", "<", "i", ">" >>


InitEscape ==
  /\ \E n \in {IdQuote, IdQuoteLower, IdMarkup},
        S \in Mappings({IdQuote, IdQuoteLower, IdMarkup}, {<<>>, SeqMarkup},
                       MaxEntries),
        D \in Mappings({IdQuote, IdQuoteLower, IdMarkup}, {DescMarkup, DescX},
                       MaxEntries) :
       /\ node_ids = {n}
       /\ todo = << n >>
       /\ sequences = S
       /\ descriptions = D
  /\ fs = [p \in Paths |-> NoFile]
  /\ fs0 = fs
  /\ argv = [xgmml_file |-> XgmmlPath, fasta_file |-> FastaPath,
             metadata_file |-> MetadataPath, output_file |-> OutputPath]
  /\ pc = "for_node_id"
  /\ original_content = <<>>
  /\ node_xmls = <<>>
  /\ nodes_added = 0
  /\ nodes_missing_data = 0
  /\ insert_pos = 0
  /\ error = ""
  /\ opened = <<>>
  /\ ServerNotStarted

SpecEscape == InitEscape /\ [][CreateNode]_vars

\* The lines of a node element, as XGMML text.

NodeOpenId ==
  << " ", " ", "<", "n", "o", "d", "e", " ", "i", "d", "=", "\"" >>

NodeOpenLabel ==
  << "\"", " ", "l", "a", "b", "e", "l", "=", "\"" >>

NodeOpenEnd ==
  << "\"", ">" >>

LineSequenceSource ==
  << " ", " ", " ", " ", "<", "a", "t", "t", " ", "n", "a", "m", "e",
     "=", "\"", "S", "e", "q", "u", "e", "n", "c", "e", " ", "S", "o",
     "u", "r", "c", "e", "\"", " ", "t", "y", "p", "e", "=", "\"", "s",
     "t", "r", "i", "n", "g", "\"", " ", "v", "a", "l", "u", "e", "=",
     "\"", "U", "S", "E", "R", "\"", " ", "/", ">" >>

AttOpen ==
  << " ", " ", " ", " ", "<", "a", "t", "t", " " >>

LineOtherIdsOpen ==
  << " ", " ", " ", " ", "<", "a", "t", "t", " ", "t", "y", "p", "e",
     "=", "\"", "l", "i", "s", "t", "\"", " ", "n", "a", "m", "e", "=",
     "\"", "O", "t", "h", "e", "r", " ", "I", "D", "s", "\"", ">" >>

LineOtherIdsNone ==
  << " ", " ", " ", " ", " ", " ", "<", "a", "t", "t", " ", "t", "y",
     "p", "e", "=", "\"", "s", "t", "r", "i", "n", "g", "\"", " ", "n",
     "a", "m", "e", "=", "\"", "O", "t", "h", "e", "r", " ", "I", "D",
     "s", "\"", " ", "v", "a", "l", "u", "e", "=", "\"", "N", "o", "n",
     "e", "\"", " ", "/", ">" >>

LineAttClose ==
  << " ", " ", " ", " ", "<", "/", "a", "t", "t", ">" >>

LineDescriptionOpen ==
  << " ", " ", " ", " ", "<", "a", "t", "t", " ", "t", "y", "p", "e",
     "=", "\"", "l", "i", "s", "t", "\"", " ", "n", "a", "m", "e", "=",
     "\"", "D", "e", "s", "c", "r", "i", "p", "t", "i", "o", "n", "\"",
     ">" >>

AttOpenString ==
  << " ", " ", " ", " ", " ", " ", "<", "a", "t", "t", " ", "t", "y",
     "p", "e", "=", "\"", "s", "t", "r", "i", "n", "g", "\"", " " >>

LineNodeClose ==
  << " ", " ", "<", "/", "n", "o", "d", "e", ">" >>
\* The node element of the identifier n with the length numeral len, the
\* sequence s and the description d: eleven lines, the values as they are.
NodeElement(n, len, s, d) ==
  join_lines(<< NodeOpenId \o n \o NodeOpenLabel \o n \o NodeOpenEnd,
                LineSequenceSource,
                AttOpen \o AttrSequenceLength \o len \o AttrEnd,
                LineOtherIdsOpen,
                LineOtherIdsNone,
                LineAttClose,
                AttOpen \o AttrSequence \o s \o AttrEnd,
                LineDescriptionOpen,
                AttOpenString \o AttrDescription \o d \o AttrEnd,
                LineAttClose,
                LineNodeClose >>,
             << "\n" >>)

\* The sequence and the description resolved for n: those of the first key
\* equal to n without regard to case, or the fallbacks.
ResolvedSequence(n) ==
  IF NoKeyMatches(sequences, n) THEN <<>>
  ELSE sequences[CHOOSE i \in 1..Len(sequences) : FirstMatchAt(sequences, i, n)].v

ResolvedDescription(n) ==
  IF NoKeyMatches(descriptions, n) THEN Unknown
  ELSE descriptions[CHOOSE i \in 1..Len(descriptions) :
                      FirstMatchAt(descriptions, i, n)].v

(***************************************************************************)
(* C11: every node element is, character for character, the fixed          *)
(* structure id, label, Sequence Source USER, Sequence Length, Other IDs    *)
(* None, Sequence, Description, in this order, with the identifier, the    *)
(* resolved sequence and the resolved description standing in it as they   *)
(* are: a quote, an angle bracket or an ampersand of a value is not        *)
(* escaped and no character of a value is changed.                         *)
(***************************************************************************)
C11_FixedStructureVerbatim ==
  LET ids == Ascending(node_ids)
  IN  \A i \in 1..Len(node_xmls) :
        LET s == ResolvedSequence(ids[i])
            d == ResolvedDescription(ids[i])
        IN  /\ node_xmls[i] = NodeElement(ids[i], Decimal(Len(s)), s, d)
            /\ Occurrences(node_xmls[i], << "\n" >>) = 10 + Occurrences(d, << "\n" >>)

\* A node whose identifier holds a quote, with a sequence and a description
\* that hold a quote, an angle bracket and an ampersand.
C11_Witness ==
  /\ node_xmls # <<>>
  /\ node_ids = {IdQuote}
  /\ ResolvedSequence(IdQuote) = SeqMarkup
  /\ ResolvedDescription(IdQuote) = DescMarkup
  /\ Carries(node_xmls[1], AttrSequence, SeqMarkup)
  /\ Carries(node_xmls[1], AttrDescription, DescMarkup)

(***************************************************************************)
(* C12 as it is claimed: whatever the four path arguments, a finished run, *)
(* successful or failed, leaves the document file, the sequence file and   *)
(* the metadata file with the contents they had at the call, and the only  *)
(* path it ever opens for writing is the output path, once on success.     *)
(***************************************************************************)
C12_InputsUnchanged ==
  Finished =>
    /\ \A q \in {argv.xgmml_file, argv.fasta_file, argv.metadata_file} :
         fs[q] = fs0[q]
    /\ Len(opened) <= 1
    /\ \A i \in 1..Len(opened) : opened[i] = argv.output_file
    /\ pc = "done" => opened = << argv.output_file >>

(***************************************************************************)
(* From the sequence file to the node elements: the spellings of a header  *)
(***************************************************************************)

\* Records whose headers are spellings of one identifier, and another.
RecLowerM ==
  << ">", "a", "\n", "M", "\n" >>

RecUpperKV ==
  << ">", "A", "\n", "K", "V", "\n" >>

RecLowerL ==
  << ">", "a", "\n", "L", "\n" >>

RecAbT ==
  << ">", "A", "b", "\n", "T", "\n" >>

RecUpperEmpty ==
  << ">", "A", "\n" >>

LookupPieces == {RecLowerM, RecUpperKV, RecLowerL, RecAbT, RecUpperEmpty}

\* The run up to the end of the loop over the identifiers, on a document
\* that names "Ab" and "A" or one that names "a".
InitLookup ==
  \E f \in {NoFile} \cup {File(t) : t \in Texts(LookupPieces, MaxLines)},
     m \in {NoFile, File(MetadataCases)},
     d \in {NoFile, File(PieceGraph \o PieceEdgeAbA),
            File(PieceGraph \o PieceEdgeaa)} :
    InitAt("parse_fasta", f, m, d)

NextLookup ==
  \/ ParseFasta
  \/ ParseMetadataTab
  \/ ExtractNodeIds
  \/ CreateNode

SpecLookup == InitLookup /\ [][NextLookup]_vars

\* The records of R whose header is a spelling of n.
SpellingsOf(R, n) ==
  {r \in 1..Len(R) : upper(StrippedHeaderOf(R[r])) = upper(n)}

\* The record whose body n gets: the last one with the header of the first
\* record that is a spelling of n.
WinningRecord(R, n) ==
  LET M     == SpellingsOf(R, n)
      first == CHOOSE r \in M : \A q \in M : r <= q
      same  == {r \in M : StrippedHeaderOf(R[r]) = StrippedHeaderOf(R[first])}
  IN  CHOOSE r \in same : \A q \in same : q <= r

(***************************************************************************)
(* C13: of several keys of a mapping that are equal to the identifier      *)
(* without regard to case, create_node_xml uses the first in insertion     *)
(* order, also when a later key is spelled exactly as the identifier; in   *)
(* terms of the sequence file, the spelling used is the one that occurs    *)
(* first in the file and the sequence is the body of the last record with  *)
(* that spelling.                                                          *)
(***************************************************************************)
C13_FirstSpellingLastBody ==
  LET ids == Ascending(node_ids)
      R   == Records(FastaText)
  IN  \A i \in 1..Len(node_xmls) :
        /\ \A j \in 1..Len(sequences) :
             FirstMatchAt(sequences, j, ids[i]) =>
               Carries(node_xmls[i], AttrSequence, sequences[j].v)
        /\ \A j \in 1..Len(descriptions) :
             FirstMatchAt(descriptions, j, ids[i]) =>
               Carries(node_xmls[i], AttrDescription, descriptions[j].v)
        /\ SpellingsOf(R, ids[i]) # {} =>
             LET body == StrippedBodyOf(R[WinningRecord(R, ids[i])])
             IN  /\ Carries(node_xmls[i], AttrSequence, body)
                 /\ Carries(node_xmls[i], AttrSequenceLength, Decimal(Len(body)))

\* The file ">a M", ">A KV", ">a L" and the identifier "A": the header "a"
\* comes first and was given last the body "L", which the node of "A" has,
\* though the header "A" is there with the body "KV".
C13_Witness ==
  /\ pc = "for_node_id"
  /\ todo = <<>>
  /\ FastaText = RecLowerM \o RecUpperKV \o RecLowerL
  /\ Ascending(node_ids) = << IdA, IdAb >>
  /\ Len(node_xmls) = 2
  /\ Carries(node_xmls[1], AttrSequence, << "L" >>)
  /\ ~Carries(node_xmls[1], AttrSequence, << "K", "V" >>)

\* The end offset of the first opening tag <name ...> of t: the offset just
\* after its ">".
FirstTagEnd(t, name) ==
  LET from == FirstTagOffset(t, name) + Len(name) + 1
  IN  CHOOSE j \in from..Len(t) : t[j] = ">" /\ \A k \in from..(j - 1) : t[k] # ">"

(***************************************************************************)
(* C14 as it is claimed: on every successful run the node block is         *)
(* spliced in at the offset of the first edge opening tag, and that offset *)
(* is not smaller than the end offset of the graph opening tag matched, so *)
(* that the inserted nodes are inside the graph container.                 *)
(***************************************************************************)
C14_InsertedInsideGraph ==
  pc = "done" =>
    /\ insert_pos = FirstTagOffset(DocumentText, EdgeOpen)
    /\ insert_pos >= FirstTagEnd(DocumentText, GraphOpen)
    /\ SubSeq(WrittenText, 1, FirstTagEnd(DocumentText, GraphOpen))
         = SubSeq(DocumentText, 1, FirstTagEnd(DocumentText, GraphOpen))

\* The record has an identifier: its first line is not blank.
HasIdentifier(rec) == HeaderOf(rec) # <<>>

(***************************************************************************)
(* C15 as it is claimed: the mapping parse_fasta returns never has the     *)
(* empty string as an identifier, and a record without an identifier (the  *)
(* marker directly followed by a newline or by another marker) is skipped: *)
(* every key of the mapping is the identifier of a record that has one, so *)
(* that no body text of a record without identifier becomes a key.         *)
(***************************************************************************)
C15_NoEmptyIdentifier ==
  pc = "parse_metadata_tab" =>
    LET R == Records(FastaText)
    IN  /\ <<>> \notin keys(sequences)
        /\ \A key \in keys(sequences) :
             \E i \in 1..Len(R) : HasIdentifier(R[i]) /\ HeaderOf(R[i]) = key

(***************************************************************************)
(* C16 as it is claimed: every sequence of the mapping parse_fasta returns *)
(* is free of whitespace: it holds no newline, no space, no tab and no     *)
(* carriage return, whatever the text of the sequence file.                *)
(***************************************************************************)
C16_SequencesWithoutWhitespace ==
  pc = "parse_metadata_tab" =>
    \A i \in 1..Len(sequences) :
      \A k \in 1..Len(sequences[i].v) : sequences[i].v[k] \notin Whitespace

\* The mapping a metadata text stands for when the fields of each line are
\* taken at their positions in the line as written: one entry for each
\* identifier (field 0) of a Description row, in the order these identifiers
\* first occur, with the value (field 2) of its last Description row.
MappingAsWritten(rows) ==
  LET D       == {r \in 1..Len(rows) : IsDescriptionRow(rows, r)}
      id(r)   == Columns(rows[r])[1]
      F       == {r \in D : \A q \in D : q < r => id(q) # id(r)}
      nth(i)  == CHOOSE r \in F : Cardinality({q \in F : q < r}) = i - 1
      last(r) == CHOOSE q \in D :
                   id(q) = id(r) /\ \A p \in D : id(p) = id(r) => p <= q
  IN  [i \in 1..Cardinality(F) |->
         [k |-> id(nth(i)), v |-> Columns(rows[last(nth(i))])[3]]]

(***************************************************************************)
(* C17 as it is claimed: parse_metadata_tab splits every line after the    *)
(* header on the tab character and, when the line has at least three       *)
(* fields and field 1 is exactly "Description", sets mapping[field 0] to    *)
(* field 2, the fields being those of the line as written (an empty field  *)
(* 0 or field 2, a tab at the beginning or the end of the line included);  *)
(* a line with fewer than three fields sets nothing and raises no error.   *)
(***************************************************************************)
C17_FieldsAsWritten ==
  /\ pc = "extract_node_ids" =>
       descriptions = MappingAsWritten(LinesOf(MetadataText))
  /\ fs0[argv.metadata_file].exists => pc # "failed"

(***************************************************************************)
(* C18 as it is claimed: extracting the references raises no error when no *)
(* source or target value is found (with readable inputs the only errors   *)
(* of a run are the two structural ones), and an empty reference set is    *)
(* detected afterwards: a run whose reference set is empty ends in a       *)
(* structural failure and writes nothing, so that no run completes having  *)
(* inserted zero node elements.                                            *)
(***************************************************************************)
C18_EmptyReferenceSetFails ==
  /\ (pc = "failed" /\ InputsReadable) => error \in {GraphNotFound, EdgeNotFound}
  /\ (Finished /\ InputsReadable /\ node_ids = {}) =>
       /\ pc = "failed"
       /\ opened = <<>>
       /\ fs = fs0
  /\ pc = "done" => nodes_added >= 1

(***************************************************************************)
(* The copy of the completion logic in client.py, as functions             *)
(***************************************************************************)

\* parse_fasta of client.py
client_parse_fasta(content) ==
  LET entries == Tail(split(content, ">"))
      RECURSIVE loop(_, _)
      loop(acc, i) ==
        IF i > Len(entries) THEN acc
        ELSE LET lines    == split(strip(entries[i]), "\n")
                 header   == strip(lines[1])
                 sequence == remove(remove(join(Tail(lines)), "\n"), " ")
             IN  loop(put(acc, header, sequence), i + 1)
  IN  loop(<<>>, 1)

\* parse_metadata_tab of client.py
client_parse_metadata_tab(content) ==
  LET lines == readlines(content)
      RECURSIVE loop(_, _)
      loop(acc, i) ==
        IF i > Len(lines) THEN acc
        ELSE LET parts == split(strip(lines[i]), "\t")
             IN  IF Len(parts) >= 3 /\ parts[2] = Description
                 THEN loop(put(acc, parts[1], parts[3]), i + 1)
                 ELSE loop(acc, i + 1)
  IN  loop(<<>>, 2)

\* extract_node_ids_from_xgmml of client.py (the set it returns)
client_extract_node_ids_from_xgmml(content) ==
  Range(findall_edge_attr(content, 0, SourceAttr))
    \cup Range(findall_edge_attr(content, 0, TargetAttr))

\* The literal text of the node template of client.py, between its fields.
ClientTplNodeId ==
  << " ", " ", "<", "n", "o", "d", "e", " ", "i", "d", "=", "\"" >>

ClientTplNodeLabel ==
  << "\"", " ", "l", "a", "b", "e", "l", "=", "\"" >>

ClientTplNodeLength ==
  << "\"", ">", "\n", " ", " ", " ", " ", "<", "a", "t", "t", " ", "n",
     "a", "m", "e", "=", "\"", "S", "e", "q", "u", "e", "n", "c", "e",
     " ", "S", "o", "u", "r", "c", "e", "\"", " ", "t", "y", "p", "e",
     "=", "\"", "s", "t", "r", "i", "n", "g", "\"", " ", "v", "a", "l",
     "u", "e", "=", "\"", "U", "S", "E", "R", "\"", " ", "/", ">", "\n",
     " ", " ", " ", " ", "<", "a", "t", "t", " ", "n", "a", "m", "e",
     "=", "\"", "S", "e", "q", "u", "e", "n", "c", "e", " ", "L", "e",
     "n", "g", "t", "h", "\"", " ", "t", "y", "p", "e", "=", "\"", "i",
     "n", "t", "e", "g", "e", "r", "\"", " ", "v", "a", "l", "u", "e",
     "=", "\"" >>

ClientTplNodeSequence ==
  << "\"", " ", "/", ">", "\n", " ", " ", " ", " ", "<", "a", "t", "t",
     " ", "t", "y", "p", "e", "=", "\"", "l", "i", "s", "t", "\"", " ",
     "n", "a", "m", "e", "=", "\"", "O", "t", "h", "e", "r", " ", "I",
     "D", "s", "\"", ">", "\n", " ", " ", " ", " ", " ", " ", "<", "a",
     "t", "t", " ", "t", "y", "p", "e", "=", "\"", "s", "t", "r", "i",
     "n", "g", "\"", " ", "n", "a", "m", "e", "=", "\"", "O", "t", "h",
     "e", "r", " ", "I", "D", "s", "\"", " ", "v", "a", "l", "u", "e",
     "=", "\"", "N", "o", "n", "e", "\"", " ", "/", ">", "\n", " ", " ",
     " ", " ", "<", "/", "a", "t", "t", ">", "\n", " ", " ", " ", " ",
     "<", "a", "t", "t", " ", "n", "a", "m", "e", "=", "\"", "S", "e",
     "q", "u", "e", "n", "c", "e", "\"", " ", "t", "y", "p", "e", "=",
     "\"", "s", "t", "r", "i", "n", "g", "\"", " ", "v", "a", "l", "u",
     "e", "=", "\"" >>

ClientTplNodeDescription ==
  << "\"", " ", "/", ">", "\n", " ", " ", " ", " ", "<", "a", "t", "t",
     " ", "t", "y", "p", "e", "=", "\"", "l", "i", "s", "t", "\"", " ",
     "n", "a", "m", "e", "=", "\"", "D", "e", "s", "c", "r", "i", "p",
     "t", "i", "o", "n", "\"", ">", "\n", " ", " ", " ", " ", " ", " ",
     "<", "a", "t", "t", " ", "t", "y", "p", "e", "=", "\"", "s", "t",
     "r", "i", "n", "g", "\"", " ", "n", "a", "m", "e", "=", "\"", "D",
     "e", "s", "c", "r", "i", "p", "t", "i", "o", "n", "\"", " ", "v",
     "a", "l", "u", "e", "=", "\"" >>

ClientTplNodeEnd ==
  << "\"", " ", "/", ">", "\n", " ", " ", " ", " ", "<", "/", "a", "t",
     "t", ">", "\n", " ", " ", "<", "/", "n", "o", "d", "e", ">" >>

\* create_node_xml of client.py
client_create_node_xml(node_id, seqs, descs) ==
  LET hit(m)      == {i \in 1..Len(m) : upper(m[i].k) = upper(node_id)}
      at(m)       == CHOOSE i \in hit(m) : \A j \in hit(m) : i <= j
      sequence    == IF hit(seqs) = {} THEN <<>> ELSE seqs[at(seqs)].v
      seq_length  == IF hit(seqs) = {} THEN 0 ELSE Len(seqs[at(seqs)].v)
      description == IF hit(descs) = {} THEN Unknown ELSE descs[at(descs)].v
  IN  ClientTplNodeId \o node_id \o ClientTplNodeLabel \o node_id
        \o ClientTplNodeLength \o format_int(seq_length)
        \o ClientTplNodeSequence \o sequence
        \o ClientTplNodeDescription \o description
        \o ClientTplNodeEnd

\* rebuild_xgmml of client.py on the files and the four arguments: the
\* exception it raises ("" when it returns True) and the files it leaves.
client_rebuild_xgmml(files, args) ==
  LET text(path) == universal_newlines(files[path].data)
      failed(e)  == [error |-> e, fs |-> files]
  IN  IF ~files[args.fasta_file].exists THEN failed(FileNotFoundError)
      ELSE IF ~files[args.metadata_file].exists THEN failed(FileNotFoundError)
      ELSE IF ~files[args.xgmml_file].exists THEN failed(FileNotFoundError)
      ELSE
        LET seqs    == client_parse_fasta(text(args.fasta_file))
            descs   == client_parse_metadata_tab(text(args.metadata_file))
            content == text(args.xgmml_file)
            ids     == sorted(client_extract_node_ids_from_xgmml(content))
            xmls    == [i \in 1..Len(ids) |->
                          client_create_node_xml(ids[i], seqs, descs)]
            graph_match      == re_search_tag(content, 0, GraphOpen)
            first_edge_match == re_search_tag(content, 0, EdgeOpen)
            pos     == first_edge_match.start
            nodes   == join_lines(xmls, Newline) \o Newline
        IN  IF ~graph_match.found THEN failed(GraphNotFound)
            ELSE IF ~first_edge_match.found THEN failed(EdgeNotFound)
            ELSE [error |-> "",
                  fs |-> [files EXCEPT ![args.output_file] =
                            File(SubSeq(content, 1, pos) \o nodes
                                   \o SubSeq(content, pos + 1, Len(content)))]]

\* The runs of rebuild.py the copy is compared on.
CopyPieces == {PieceGraph, PieceEdgeAbA, PieceEdgeaa, PieceCrLf}

InitCopies ==
  \E d \in {NoFile} \cup {File(t) : t \in Texts(CopyPieces, MaxPieces)},
     f \in FastaFiles, m \in MetadataFiles :
    InitAt("parse_fasta", f, m, d)

SpecCopies == InitCopies /\ [][Next]_vars

(***************************************************************************)
(* C19: rebuild_xgmml of rebuild.py and rebuild_xgmml of client.py, each   *)
(* with its parsers, extractor and synthesizer, do the same on the same    *)
(* files: both fail with the same error and write nothing, or both write   *)
(* the same text to the output path.                                       *)
(***************************************************************************)
C19_CopiesEquivalent ==
  Finished =>
    LET c == client_rebuild_xgmml(fs0, argv)
    IN  /\ c.error = error
        /\ c.fs = fs
        /\ error # "" => fs = fs0 /\ opened = <<>>
        /\ error = "" => pc = "done" /\ fs[argv.output_file].exists

\* A run that wrote two node elements, and the copy writes the same text.
C19_Witness ==
  /\ pc = "done"
  /\ nodes_added >= 2
  /\ nodes_missing_data >= 1
  /\ fs[argv.output_file].exists
  /\ client_rebuild_xgmml(fs0, argv).fs[argv.output_file] = fs[argv.output_file]

(***************************************************************************)
(* server.py: the /process handlers and the directories they share         *)
(***************************************************************************)

\* The number of /process requests in flight together.
NumRequests == 2

Requests == 1..NumRequests

\* cleanup_work_directory(): shutil.rmtree(RESULTS_DIR), then os.makedirs.
cleanup_work_directory == EmptyDir(ResultFiles)

\* create_result_zip(RESULTS_DIR): the files the zip is made of, each with
\* the request whose step wrote it; found is FALSE when one is missing.
create_result_zip(dir) ==
  IF \A f \in RequiredFiles : dir[f] # 0
  THEN [found |-> TRUE, files |-> [f \in RequiredFiles |-> dir[f]]]
  ELSE [found |-> FALSE, files |-> EmptyDir(RequiredFiles)]

\* The handler of request r moves to the statement to.
goto(r, to) == handler' = [handler EXCEPT ![r].pc = to]

\* The handler of request r returns the response of the given status: the
\* finally block is what runs next.
respond(r, status) ==
  handler' = [handler EXCEPT ![r].pc = "finally", ![r].response = status]

\* The three directories of rebuild_xgmml and its locals are not touched.
rebuild_vars ==
  << fs, fs0, argv, pc, sequences, descriptions, node_ids, original_content,
     todo, node_xmls, nodes_added, nodes_missing_data, insert_pos, error,
     opened >>

\* cleanup_work_directory() as the first statement of process_fasta.
CleanupOnEntry(r) ==
  /\ handler[r].pc = "cleanup"
  /\ results_dir' = cleanup_work_directory
  /\ goto(r, "validate")
  /\ UNCHANGED << fasta_cache_dir, rebuild_vars >>

\* The validation of the upload: 400 without a file or with an empty file
\* name; otherwise file.save(fasta_path).
Validate(r) ==
  /\ handler[r].pc = "validate"
  /\ IF ~handler[r].has_file
     THEN /\ respond(r, 400)
          /\ UNCHANGED fasta_cache_dir
     ELSE /\ fasta_cache_dir' = [fasta_cache_dir EXCEPT !["test.fasta"] = r]
          /\ goto(r, "makeblastdb")
  /\ UNCHANGED << results_dir, rebuild_vars >>

\* Step 1: run_command(makeblastdb ...), which may fail without an exception.
MakeBlastDb(r) ==
  /\ handler[r].pc = "makeblastdb"
  /\ \E ok \in BOOLEAN :
       fasta_cache_dir' =
         IF ok THEN [fasta_cache_dir EXCEPT !["test_blastdb"] = r]
         ELSE fasta_cache_dir
  /\ goto(r, "create_est_params")
  /\ UNCHANGED << results_dir, rebuild_vars >>

\* Step 2: create_est_nextflow_params.py --output-dir RESULTS_DIR.
CreateEstParams(r) ==
  /\ handler[r].pc = "create_est_params"
  /\ \E ok \in BOOLEAN :
       results_dir' =
         IF ok THEN [results_dir EXCEPT !["run_nextflow.sh"] = r]
         ELSE results_dir
  /\ goto(r, "run_est")
  /\ UNCHANGED << fasta_cache_dir, rebuild_vars >>

\* Step 3: bash RESULTS_DIR/run_nextflow.sh when the script exists; the
\* source names no file of its output.
RunEst(r) ==
  /\ handler[r].pc = "run_est"
  /\ goto(r, "create_ssn_params")
  /\ UNCHANGED << results_dir, fasta_cache_dir, rebuild_vars >>

\* Step 4: create_generatessn_nextflow_params.py --est-output-dir RESULTS_DIR.
CreateSsnParams(r) ==
  /\ handler[r].pc = "create_ssn_params"
  /\ \E ok \in BOOLEAN :
       results_dir' =
         IF ok THEN [results_dir EXCEPT !["ssn/run_nextflow.sh"] = r]
         ELSE results_dir
  /\ goto(r, "run_ssn")
  /\ UNCHANGED << fasta_cache_dir, rebuild_vars >>

\* Step 5: bash RESULTS_DIR/ssn/run_nextflow.sh when the script exists: the
\* run that succeeds leaves the three required files.
RunSsn(r) ==
  /\ handler[r].pc = "run_ssn"
  /\ IF results_dir["ssn/run_nextflow.sh"] # 0
     THEN \E ok \in BOOLEAN :
            results_dir' =
              IF ok
              THEN [f \in ResultFiles |->
                      IF f \in RequiredFiles THEN r ELSE results_dir[f]]
              ELSE results_dir
     ELSE UNCHANGED results_dir
  /\ goto(r, "create_result_zip")
  /\ UNCHANGED << fasta_cache_dir, rebuild_vars >>

\* zip_path, missing_files = create_result_zip(RESULTS_DIR), then send_file
\* or the response 500.
CreateResultZip(r) ==
  /\ handler[r].pc = "create_result_zip"
  /\ LET zip == create_result_zip(results_dir)
     IN  IF zip.found
         THEN /\ results_dir' = [results_dir EXCEPT !["results.zip"] = r]
              /\ handler' = [handler EXCEPT ![r].pc = "finally",
                                            ![r].response = 200,
                                            ![r].zipped = zip.files]
         ELSE /\ respond(r, 500)
              /\ UNCHANGED results_dir
  /\ UNCHANGED << fasta_cache_dir, rebuild_vars >>

\* finally: cleanup_work_directory()
CleanupFinally(r) ==
  /\ handler[r].pc = "finally"
  /\ results_dir' = cleanup_work_directory
  /\ goto(r, "done")
  /\ UNCHANGED << fasta_cache_dir, rebuild_vars >>

\* The requests have arrived, each with or without a file; the directories
\* are empty; rebuild_xgmml is not called by the server.
InitServer ==
  /\ results_dir = EmptyDir(ResultFiles)
  /\ fasta_cache_dir = EmptyDir(CacheFiles)
  /\ \E has \in [Requests -> BOOLEAN] :
       handler = [r \in Requests |->
                    [pc |-> "cleanup", has_file |-> has[r], response |-> 0,
                     zipped |-> EmptyDir(RequiredFiles)]]
  /\ fs = [p \in Paths |-> NoFile]
  /\ fs0 = fs
  /\ argv = [xgmml_file |-> XgmmlPath, fasta_file |-> FastaPath,
             metadata_file |-> MetadataPath, output_file |-> OutputPath]
  /\ pc = "not_called"
  /\ sequences = <<>>
  /\ descriptions = <<>>
  /\ node_ids = {}
  /\ original_content = <<>>
  /\ todo = <<>>
  /\ node_xmls = <<>>
  /\ nodes_added = 0
  /\ nodes_missing_data = 0
  /\ insert_pos = 0
  /\ error = ""
  /\ opened = <<>>

\* The handlers run in threads of one process: any of them takes the next
\* step.
NextServer ==
  \E r \in Requests :
    \/ CleanupOnEntry(r)
    \/ Validate(r)
    \/ MakeBlastDb(r)
    \/ CreateEstParams(r)
    \/ RunEst(r)
    \/ CreateSsnParams(r)
    \/ RunSsn(r)
    \/ CreateResultZip(r)
    \/ CleanupFinally(r)

SpecServer == InitServer /\ [][NextServer]_vars

\* Request q is in flight with results it has not packaged yet: file f of
\* RESULTS_DIR was written by a step of q, and q has not made its zip.
HoldsUnpackaged(q, f) ==
  /\ results_dir[f] = q
  /\ handler[q].pc \notin {"finally", "done"}

\* Request r takes the step of a cleanup_work_directory() call.
CleansUp(r) ==
  \/ handler[r].pc = "cleanup" /\ handler'[r].pc # "cleanup"
  \/ handler[r].pc = "finally" /\ handler'[r].pc # "finally"

(***************************************************************************)
(* C20 as it is claimed: every /process request empties RESULTS_DIR on     *)
(* entry, before the validation (so a request answered 400 has emptied it  *)
(* too), and again in its finally block; and under every interleaving of   *)
(* the requests, the files a request packages into its results.zip were    *)
(* written by the steps of that same request, and no cleanup of a request  *)
(* removes a required file that another request in flight has written and  *)
(* not yet packaged.                                                       *)
(***************************************************************************)
C20_RequestsIsolated ==
  /\ [](\A r \in Requests :
          /\ \A f \in RequiredFiles : handler[r].zipped[f] \in {0, r}
          /\ handler[r].response # 0 => handler[r].pc \in {"finally", "done"})
  /\ [][\A r \in Requests :
          CleansUp(r) =>
            /\ results_dir' = EmptyDir(ResultFiles)
            /\ handler[r].pc = "cleanup" => handler[r].response = 0
            /\ \A q \in Requests \ {r} :
                 \A f \in RequiredFiles : ~HoldsUnpackaged(q, f)]_vars

=============================================================================
